---- MODULE Spec2Model ----
(***************************************************************************)
(* Hotel analytics dashboard: the data loader (data_loader.py), its        *)
(* callers in app.py and the live-fetch client (serpapi_fetcher.py).       *)
(*                                                                         *)
(* A table (pandas DataFrame) is a record [cols, rows]: cols is the        *)
(* sequence of column labels, rows the sequence of rows, each row a record *)
(* [i, v] of its index label i (the position it was loaded at, which       *)
(* pandas keeps through every row filter) and its cells v, aligned with    *)
(* cols.  Labels and text cells are                                        *)
(* sequences of one-character strings, so that the string operations of    *)
(* the code (strip, lower, replace, regex removal, float parsing) are      *)
(* computed character by character.  A number is an integer count of       *)
(* 1/Scale units (Scale = 10^Decimals).  A raised Python exception is the  *)
(* outcome "raised".                                                       *)
(***************************************************************************)
EXTENDS Integers, Sequences, FiniteSets, TLC

VARIABLES
    fetched_data,   \* st.session_state['fetched_data']: a table, or Absent
    file_path,      \* the file_path argument: NoPath (None) or a path
    disk,           \* path -> table stored in that CSV file, or Absent
    batch,          \* outcome of the call up to line 197: df as the percentile
                    \* of line 201 is computed over it
    result,         \* outcome of load_and_preprocess_data(file_path)
    reapplied,      \* outcome of the transform applied to its own output
    pc,             \* "start", "loaded", "reapplied"; "app" in the dashboard;
                    \* "demo", "demo1", "demo2": calls of create_demo_data made
    cache,          \* st.cache_data's entry for load_and_preprocess_data():
                    \* NotRun (no entry) or the memoized outcome
    filters,        \* the sidebar's price_min, price_max, min_rating
    df_filtered,    \* st.session_state['df_filtered']
    page,           \* the page main() rendered last: "none", "login",
                    \* "fetch", "analysis", or "error" when the run raised
    authenticated,  \* st.session_state['authenticated']; FALSE when not set
    data_source,    \* st.session_state['data_source'], or "<unset>"
    rng,            \* the state of NumPy's global random generator
    fetch_df        \* df of render_data_fetch_page (line 332): the answer of
                    \* the run's request, Absent when the run made none

vars == <<fetched_data, file_path, disk, batch, result, reapplied, pc,
          cache, filters, df_filtered, page, authenticated, data_source, rng,
          fetch_df>>

---------------------------------------------------------------------------
(* Bounds of the model *)

\* largest number of rows of a raw input table
MaxRows == 3
\* decimal places a number carries
Decimals == 2
\* largest number of records a search returns
MaxFetchRows == 1
\* number of states of the random generator: 0 .. RngPeriod - 1
RngPeriod == 64

RECURSIVE Pow10(_)
Pow10(e) == IF e = 0 THEN 1 ELSE 10 * Pow10(e - 1)
Scale == Pow10(Decimals)

\* the decimal number i.hh (two digits after the point) in 1/Scale units
Dec(i, hh) == i * Scale + hh * (Scale \div 100)

---------------------------------------------------------------------------
(* Cells *)

NaN == [k |-> "nan", n |-> 0, d |-> 1, s |-> <<>>, c |-> ""]
\* a float n/Scale
Num(x) == [k |-> "num", n |-> x, d |-> 1, s |-> <<>>, c |-> ""]
\* a float that is the exact quotient x/y (y > 0), kept unreduced
Frac(x, y) == [k |-> "frac", n |-> x, d |-> y, s |-> <<>>, c |-> ""]
\* a str
Str(t) == [k |-> "str", n |-> 0, d |-> 1, s |-> t, c |-> ""]
\* a value of a pandas Categorical
Cat(l) == [k |-> "cat", n |-> 0, d |-> 1, s |-> <<>>, c |-> l]
\* a parsed timestamp (yyyymmdd)
Date(x) == [k |-> "date", n |-> x, d |-> 1, s |-> <<>>, c |-> ""]

\* no table at all (a missing session key, a missing file)
Absent == [cols |-> <<<<"<absent>">>>>, rows |-> <<>>]
NoPath == ""
\* no 'data_source' key in the session
NoSource == "<unset>"

Range(f) == {f[i] : i \in DOMAIN f}
\* the sequence f with every element computed (same value as f)
Computed(f) == SubSeq(f, 1, Len(f))

---------------------------------------------------------------------------
(* Characters and text *)

Digits == {"0", "1", "2", "3", "4", "5", "6", "7", "8", "9"}
DigitChars == <<"0", "1", "2", "3", "4", "5", "6", "7", "8", "9">>
DigitVal(ch) == (CHOOSE i \in 1..10 : DigitChars[i] = ch) - 1

UpperChars == <<"A", "B", "C", "D", "E", "F", "G", "H", "I", "J", "K", "L", "M",
                "N", "O", "P", "Q", "R", "S", "T", "U", "V", "W", "X", "Y", "Z">>
LowerChars == <<"a", "b", "c", "d", "e", "f", "g", "h", "i", "j", "k", "l", "m",
                "n", "o", "p", "q", "r", "s", "t", "u", "v", "w", "x", "y", "z">>

\* str.lower() on one character
LowerChar(ch) ==
    IF \E i \in 1..26 : UpperChars[i] = ch
    THEN LowerChars[CHOOSE i \in 1..26 : UpperChars[i] = ch]
    ELSE ch

\* keep the characters of t that are in keep
Filter(t, keep) == LET Kept(ch) == ch \in keep IN SelectSeq(t, Kept)

\* str.replace(ch, '') for a one-character pattern
RemoveChar(t, ch) == LET Other(c) == c # ch IN SelectSeq(t, Other)

\* str.replace(pat, '') for a pattern no proper prefix of which is also its
\* suffix (such as 'AED'): occurrences cannot overlap, each one is removed
RemoveSub(t, pat) ==
    LET At(b)   == /\ b >= 1 /\ b + Len(pat) - 1 <= Len(t)
                   /\ SubSeq(t, b, b + Len(pat) - 1) = pat
        Stays(i) == ~\E b \in (i - Len(pat) + 1)..i : At(b)
        left    == SelectSeq([i \in 1..Len(t) |-> i], Stays)
    IN  [j \in 1..Len(left) |-> t[left[j]]]

\* str.replace(' ', '_')
ReplaceSpaces(t) == [i \in 1..Len(t) |-> IF t[i] = " " THEN "_" ELSE t[i]]

\* str.lower()
Lower(t) == [i \in 1..Len(t) |-> LowerChar(t[i])]

\* str.strip() : leading and trailing blanks removed
Strip(t) ==
    LET inked == {i \in 1..Len(t) : t[i] # " "}
    IN  IF inked = {} THEN <<>>
        ELSE SubSeq(t, CHOOSE i \in inked : \A j \in inked : i <= j,
                       CHOOSE i \in inked : \A j \in inked : j <= i)

---------------------------------------------------------------------------
(* Numbers as text: str(float) and float(str) *)

RECURSIVE IntDigits(_)
IntDigits(m) ==
    IF m < 10 THEN <<DigitChars[m + 1]>>
    ELSE IntDigits(m \div 10) \o <<DigitChars[(m % 10) + 1]>>

RECURSIVE PadDigits(_, _)
PadDigits(f, width) ==
    IF width = 0 THEN <<>>
    ELSE PadDigits(f \div 10, width - 1) \o <<DigitChars[(f % 10) + 1]>>

\* trailing zeros removed, the first character always kept
StripZeros(t) ==
    LET kept == {1} \cup {i \in 1..Len(t) : t[i] # "0"}
    IN  SubSeq(t, 1, CHOOSE i \in kept : \A j \in kept : j <= i)

Abs(x) == IF x < 0 THEN 0 - x ELSE x

\* a float rendering that does not read back as the number rendered
FormatNumInexact(x) == IntDigits(Abs(x) \div Scale + 1) \o <<".", "0">>

\* repr of a float: sign, integer digits, the point, the fraction digits
\* without trailing zeros (at least one digit)
FormatNum(x) ==
    (IF x < 0 THEN <<"-">> ELSE <<>>)
    \o IntDigits(Abs(x) \div Scale) \o <<".">>
    \o (IF Decimals = 0 THEN <<"0">> ELSE StripZeros(PadDigits(Abs(x) % Scale, Decimals)))

RECURSIVE DigitsToInt(_)
DigitsToInt(t) ==
    IF t = <<>> THEN 0
    ELSE DigitsToInt(SubSeq(t, 1, Len(t) - 1)) * 10 + DigitVal(t[Len(t)])

CountChar(t, ch) == Cardinality({i \in 1..Len(t) : t[i] = ch})

\* float(t) accepts t: digits with at most one point and at least one digit
IsFloatText(t) ==
    /\ t # <<>>
    /\ \A i \in 1..Len(t) : t[i] \in Digits \cup {"."}
    /\ CountChar(t, ".") <= 1
    /\ \E i \in 1..Len(t) : t[i] \in Digits

\* the value of float(t) in 1/Scale units, for t accepted by IsFloatText
FloatValue(t) ==
    LET dot == IF CountChar(t, ".") = 0 THEN Len(t) + 1
               ELSE CHOOSE i \in 1..Len(t) : t[i] = "."
        ip  == SubSeq(t, 1, dot - 1)
        fp  == SubSeq(t, dot + 1, Len(t))
        fd  == [i \in 1..Decimals |-> IF i <= Len(fp) THEN fp[i] ELSE "0"]
    IN  DigitsToInt(ip) * Scale + DigitsToInt(fd)

\* Series.astype(str) on one cell
AsStr(x) ==
    CASE x.k = "str" -> x.s
      [] x.k = "num" -> FormatNum(x.n)
      [] OTHER       -> <<"n", "a", "n">>

\* a cell that stands for "this operation raised"
Raise == [k |-> "err", n |-> 0, d |-> 1, s |-> <<>>, c |-> ""]

\* the chain of str.replace calls of clean_currency_column on one text
StripCurrency(t) ==
    Filter(RemoveChar(RemoveSub(RemoveChar(t, "$"), <<"A", "E", "D">>), ","),
           Digits \cup {"."})

\* .replace('', nan).astype(float).fillna(0) on one stripped text:
\* astype(float) raises ValueError on a text float() rejects
ToFloatOrZero(t) ==
    IF t = <<>> THEN Num(0)
    ELSE IF IsFloatText(t) THEN Num(FloatValue(t))
    ELSE Raise

\* a cleaning that reads a leading minus sign as the sign of the number
CleanCurrencyCellSigned(x) ==
    LET t == AsStr(x)
        v == ToFloatOrZero(StripCurrency(t))
    IN  IF v.k = "num" /\ t # <<>> /\ Head(t) = "-" THEN Num(0 - v.n) ELSE v
\* clean_currency_column, one cell
CleanCurrencyCell(x) == ToFloatOrZero(StripCurrency(AsStr(x)))

\* clean_currency_column(series); a Raise cell in the result: the call raised
clean_currency_column(series) ==
    [i \in DOMAIN series |-> CleanCurrencyCell(series[i])]

\* pd.to_numeric(errors='coerce'), one cell: numbers stay, a text that is a
\* signed decimal literal (surrounding blanks allowed) is parsed, anything
\* else becomes NaN
ToNumericCell(x) ==
    CASE x.k \in {"num", "frac"} -> x
      [] x.k = "str" ->
            LET t    == Strip(x.s)
                neg  == t # <<>> /\ Head(t) = "-"
                body == IF t # <<>> /\ Head(t) \in {"-", "+"} THEN Tail(t) ELSE t
            IN  IF IsFloatText(body)
                THEN Num(IF neg THEN 0 - FloatValue(body) ELSE FloatValue(body))
                ELSE NaN
      [] OTHER -> NaN


---------------------------------------------------------------------------
(* Column labels of data_loader.py, as texts *)

price == <<"p", "r", "i", "c", "e">>
price_per_night == <<"p", "r", "i", "c", "e", "_", "p", "e", "r", "_", "n", "i", "g", "h", "t">>
price_display == <<"p", "r", "i", "c", "e", "_", "d", "i", "s", "p", "l", "a", "y">>
before_taxes_fees == <<"b", "e", "f", "o", "r", "e", "_", "t", "a", "x", "e", "s", "_", "f", "e", "e", "s">>
overall_rating == <<"o", "v", "e", "r", "a", "l", "l", "_", "r", "a", "t", "i", "n", "g">>
rating == <<"r", "a", "t", "i", "n", "g">>
star_rating == <<"s", "t", "a", "r", "_", "r", "a", "t", "i", "n", "g">>
reviews_count == <<"r", "e", "v", "i", "e", "w", "s", "_", "c", "o", "u", "n", "t">>
reviews == <<"r", "e", "v", "i", "e", "w", "s">>
number_of_reviews == <<"n", "u", "m", "b", "e", "r", "_", "o", "f", "_", "r", "e", "v", "i", "e", "w", "s">>
availability == <<"a", "v", "a", "i", "l", "a", "b", "i", "l", "i", "t", "y">>
availability_365 == <<"a", "v", "a", "i", "l", "a", "b", "i", "l", "i", "t", "y", "_", "3", "6", "5">>
minimum_nights == <<"m", "i", "n", "i", "m", "u", "m", "_", "n", "i", "g", "h", "t", "s">>
maximum_nights == <<"m", "a", "x", "i", "m", "u", "m", "_", "n", "i", "g", "h", "t", "s">>
total_amenities_count == <<"t", "o", "t", "a", "l", "_", "a", "m", "e", "n", "i", "t", "i", "e", "s", "_", "c", "o", "u", "n", "t">>
amenities_count == <<"a", "m", "e", "n", "i", "t", "i", "e", "s", "_", "c", "o", "u", "n", "t">>
scrape_date == <<"s", "c", "r", "a", "p", "e", "_", "d", "a", "t", "e">>
last_review == <<"l", "a", "s", "t", "_", "r", "e", "v", "i", "e", "w">>
host_since == <<"h", "o", "s", "t", "_", "s", "i", "n", "c", "e">>
first_review == <<"f", "i", "r", "s", "t", "_", "r", "e", "v", "i", "e", "w">>
hotel_name == <<"h", "o", "t", "e", "l", "_", "n", "a", "m", "e">>
name == <<"n", "a", "m", "e">>
property_name == <<"p", "r", "o", "p", "e", "r", "t", "y", "_", "n", "a", "m", "e">>
hotel_type == <<"h", "o", "t", "e", "l", "_", "t", "y", "p", "e">>
property_type == <<"p", "r", "o", "p", "e", "r", "t", "y", "_", "t", "y", "p", "e">>
room_type == <<"r", "o", "o", "m", "_", "t", "y", "p", "e">>
location == <<"l", "o", "c", "a", "t", "i", "o", "n">>
neighborhood == <<"n", "e", "i", "g", "h", "b", "o", "r", "h", "o", "o", "d">>
area == <<"a", "r", "e", "a">>
host_name == <<"h", "o", "s", "t", "_", "n", "a", "m", "e">>
host_id == <<"h", "o", "s", "t", "_", "i", "d">>
latitude == <<"l", "a", "t", "i", "t", "u", "d", "e">>
longitude == <<"l", "o", "n", "g", "i", "t", "u", "d", "e">>
value_score == <<"v", "a", "l", "u", "e", "_", "s", "c", "o", "r", "e">>
demand_score == <<"d", "e", "m", "a", "n", "d", "_", "s", "c", "o", "r", "e">>
price_category == <<"p", "r", "i", "c", "e", "_", "c", "a", "t", "e", "g", "o", "r", "y">>
rating_category == <<"r", "a", "t", "i", "n", "g", "_", "c", "a", "t", "e", "g", "o", "r", "y">>
host_listings_count == <<"h", "o", "s", "t", "_", "l", "i", "s", "t", "i", "n", "g", "s", "_", "c", "o", "u", "n", "t">>
host_type == <<"h", "o", "s", "t", "_", "t", "y", "p", "e">>

price_columns == <<price, price_per_night, price_display, before_taxes_fees>>
rating_columns == <<overall_rating, rating, star_rating>>
numeric_cols == <<reviews_count, reviews, number_of_reviews,
                  availability, availability_365,
                  minimum_nights, maximum_nights,
                  total_amenities_count, amenities_count>>
date_columns == <<scrape_date, last_review, host_since, first_review>>
categorical_cols == <<hotel_name, name, property_name,
                      hotel_type, property_type, room_type,
                      location, neighborhood, area,
                      host_name, host_id>>
critical_cols == <<hotel_name, price_per_night>>

---------------------------------------------------------------------------
(* Tables *)

HasCol(df, col) == \E i \in 1..Len(df.cols) : df.cols[i] = col
\* the label occurs more than once: df[col] is then a DataFrame, not a Series
DupCol(df, col) == Cardinality({i \in 1..Len(df.cols) : df.cols[i] = col}) > 1
ColIdx(df, col) == CHOOSE i \in 1..Len(df.cols) : df.cols[i] = col
\* df[col]
Col(df, col) == Computed([r \in 1..Len(df.rows) |-> df.rows[r].v[ColIdx(df, col)]])
\* df[col] = series : replaces the column, or appends a new last column
SetCol(df, col, series) ==
    IF HasCol(df, col)
    THEN [df EXCEPT !.rows = Computed(
            [r \in 1..Len(df.rows) |->
                [df.rows[r] EXCEPT !.v[ColIdx(df, col)] = series[r]]])]
    ELSE [cols |-> Append(df.cols, col),
          rows |-> Computed([r \in 1..Len(df.rows) |->
                        [df.rows[r] EXCEPT !.v = Append(df.rows[r].v, series[r])]])]
\* DataFrame.empty
IsEmpty(df) == Len(df.rows) = 0 \/ Len(df.cols) = 0
\* the value of column col in a row of df
Cell(df, row, col) == row.v[ColIdx(df, col)]
\* pd.DataFrame(records) / read_csv: rows indexed 0, 1, 2, ...
MkTable(labels, records) ==
    [cols |-> labels,
     rows |-> Computed([r \in 1..Len(records) |->
                            [i |-> r - 1, v |-> Computed(records[r])]])]

\* outcomes of a call: a returned table, or a raised exception
Ok(df) == [status |-> "ok", df |-> df, exc |-> ""]
Raised(e) == [status |-> "raised", df |-> Absent, exc |-> e]
NotRun == [status |-> "none", df |-> Absent, exc |-> ""]

---------------------------------------------------------------------------
(* The preprocessing pipeline of load_and_preprocess_data, step by step *)

\* 1. df.columns.str.strip().str.lower().str.replace(' ', '_')
StandardizeLabel(l) == ReplaceSpaces(Lower(Strip(l)))
StandardizeColumns(df) ==
    [df EXCEPT !.cols = Computed([i \in 1..Len(df.cols) |-> StandardizeLabel(df.cols[i])])]

\* 3. rating cleaning (lines 70-71): to_numeric(errors='coerce'), clip(0, 5)
\* a clip that forgets the upper bound
ClipCellNoUpper(x, lo, hi) ==
    IF x.k = "num" THEN Num(IF x.n < lo THEN lo ELSE x.n) ELSE x
ClipCell(x, lo, hi) ==
    IF x.k = "num"
    THEN Num(IF x.n < lo THEN lo ELSE IF x.n > hi THEN hi ELSE x.n)
    ELSE x
CleanRating(series) ==
    [i \in DOMAIN series |-> ClipCell(ToNumericCell(series[i]), 0, 5 * Scale)]

\* 4. numeric columns (line 91): to_numeric(errors='coerce').fillna(0)
FillNa(x, v) == IF x.k = "nan" THEN v ELSE x
CleanNumeric(series) ==
    [i \in DOMAIN series |-> FillNa(ToNumericCell(series[i]), Num(0))]

\* 5. date columns (line 108): to_datetime(errors='coerce').  A text
\* yyyy-mm-dd is parsed; the other texts of the model are not dates (NaT).
IsDateText(t) ==
    /\ Len(t) = 10
    /\ t[5] = "-" /\ t[8] = "-"
    /\ \A i \in {1, 2, 3, 4, 6, 7, 9, 10} : t[i] \in Digits
ToDatetimeCell(x) ==
    CASE x.k = "date" -> x
      [] x.k = "str" /\ IsDateText(Strip(x.s)) ->
            Date(DigitsToInt(Filter(Strip(x.s), Digits)))
      [] OTHER -> NaN
CleanDate(series) == [i \in DOMAIN series |-> ToDatetimeCell(series[i])]

\* 6. categorical columns (line 123): fillna('Unknown').astype(str).str.strip()
Unknown == <<"U", "n", "k", "n", "o", "w", "n">>
CleanCategorical(series) ==
    [i \in DOMAIN series |-> Str(Strip(AsStr(FillNa(series[i], Str(Unknown)))))]

\* 7. coordinates (lines 137-142): to_numeric, then the Dubai default
DubaiLatitude == Frac(252048, 10000)
DubaiLongitude == Frac(552708, 10000)
CleanLatitude(series) ==
    [i \in DOMAIN series |-> FillNa(ToNumericCell(series[i]), DubaiLatitude)]
CleanLongitude(series) ==
    [i \in DOMAIN series |-> FillNa(ToNumericCell(series[i]), DubaiLongitude)]

\* the right-hand side of "df[col] = ..." in the section named by step
Clean(step, series) ==
    CASE step = "price"       -> clean_currency_column(series)
      [] step = "rating"      -> CleanRating(series)
      [] step = "numeric"     -> CleanNumeric(series)
      [] step = "date"        -> CleanDate(series)
      [] step = "categorical" -> CleanCategorical(series)
      [] step = "latitude"    -> CleanLatitude(series)
      [] step = "longitude"   -> CleanLongitude(series)

\* "for col in cols: if col in df.columns: df[col] = ..." on an outcome r,
\* in the section named by step.  The listed columns are distinct, so the
\* iterations do not read each other's results and the loop is one pass over
\* the table.  With a repeated label df[col] is a DataFrame and every
\* cleaning of the pipeline raises on it (dupExc); the cleaning itself raises
\* when it yields a Raise cell (cellExc); the exception is that of the first
\* listed column that fails.
MapCols(r, cols, step, dupExc, cellExc) ==
    IF r.status # "ok" THEN r
    ELSE
      LET df      == r.df
          \* per column of df: is it one of the listed columns
          touched == Computed([j \in 1..Len(df.cols) |->
                        \E k \in 1..Len(cols) : cols[k] = df.cols[j]])
          dup     == Computed([j \in 1..Len(df.cols) |->
                        touched[j] /\ DupCol(df, df.cols[j])])
          done    == Computed([j \in 1..Len(df.cols) |->
                        IF touched[j] /\ ~dup[j]
                        THEN Computed(Clean(step, Col(df, df.cols[j])))
                        ELSE <<>>])
          failed  == Computed([j \in 1..Len(df.cols) |->
                        \/ dup[j]
                        \/ \E i \in 1..Len(done[j]) : done[j][i] = Raise])
          bad     == {k \in 1..Len(cols) :
                        \E j \in 1..Len(df.cols) : df.cols[j] = cols[k] /\ failed[j]}
          first   == CHOOSE k \in bad : \A m \in bad : k <= m
      IN  IF bad # {}
          THEN Raised(IF DupCol(df, cols[first]) THEN dupExc ELSE cellExc)
          ELSE IF \A j \in 1..Len(df.cols) : ~touched[j] THEN r
          ELSE Ok([df EXCEPT !.rows = Computed(
                    [i \in 1..Len(df.rows) |->
                        [df.rows[i] EXCEPT !.v = Computed(
                            [j \in 1..Len(df.cols) |->
                                IF touched[j] THEN done[j][i]
                                ELSE df.rows[i].v[j]])]])])

\* the alias listed last among those present: the priority reversed
LastPresent(df, aliases) ==
    LET Present(a) == HasCol(df, a)
        found == SelectSeq(aliases, Present)
    IN  IF found = <<>> THEN <<>> ELSE <<found[Len(found)]>>
\* "if target not in df.columns: if a1 in ...: df[target] = df[a1] elif a2 ..."
RECURSIVE FirstPresent(_, _)
FirstPresent(df, aliases) ==
    IF aliases = <<>> THEN <<>>
    ELSE IF HasCol(df, Head(aliases)) THEN <<Head(aliases)>>
    ELSE FirstPresent(df, Tail(aliases))
ResolveAlias(r, target, aliases) ==
    IF r.status # "ok" \/ HasCol(r.df, target) THEN r
    ELSE LET src == FirstPresent(r.df, aliases)
         IN  IF src = <<>> THEN r
             ELSE Ok(SetCol(r.df, target, Col(r.df, src[1])))

\* 2. price cleaning (lines 49-60)
PriceCleaning(r) ==
    ResolveAlias(MapCols(r, price_columns, "price", "AttributeError", "ValueError"),
                 price_per_night, <<price, price_display>>)
\* 3. rating cleaning (lines 66-76)
RatingCleaning(r) ==
    ResolveAlias(MapCols(r, rating_columns, "rating", "TypeError", "TypeError"),
                 overall_rating, <<rating>>)
\* 4. numeric columns (lines 82-98)
NumericCleaning(r) ==
    ResolveAlias(MapCols(r, numeric_cols, "numeric", "TypeError", "TypeError"),
                 reviews_count, <<reviews, number_of_reviews>>)
\* 5. date columns (lines 104-108)
DateCleaning(r) == MapCols(r, date_columns, "date", "ValueError", "ValueError")
\* 6. categorical columns (lines 114-130)
CategoricalCleaning(r) ==
    ResolveAlias(
        MapCols(r, categorical_cols, "categorical", "AttributeError", "AttributeError"),
        hotel_name, <<name, property_name>>)
\* 7. coordinates (lines 136-142)
CoordinateCleaning(r) ==
    MapCols(MapCols(r, <<latitude>>, "latitude", "TypeError", "TypeError"),
            <<longitude>>, "longitude", "TypeError", "TypeError")

---------------------------------------------------------------------------
(* 8. feature engineering (lines 148-186) *)

\* float('inf') as a bin edge
Inf == 2147483647

\* (rating / price) * 100 on every row, without np.where's condition
ValueScoreCellUnguarded(rt, pr) ==
    IF rt.k = "num" /\ pr.k = "num" THEN Frac(rt.n * 100, pr.n) ELSE NaN
\* np.where(price > 0, (rating / price) * 100, 0)
ValueScoreCell(rt, pr) ==
    IF pr.k = "num" /\ pr.n > 0
    THEN (IF rt.k = "num" THEN Frac(rt.n * 100, pr.n) ELSE NaN)
    ELSE Num(0)
\* the quotient also at availability 365: the condition closed on the right
DemandScoreCellClosed(rv, av) ==
    IF av.k = "num" /\ av.n > 0 /\ av.n <= 365 * Scale
    THEN (IF rv.k = "num" THEN Frac(rv.n, 365 * Scale - av.n) ELSE NaN)
    ELSE rv
\* np.where((avail > 0) & (avail < 365), reviews / (365 - avail), reviews)
DemandScoreCell(rv, av) ==
    IF av.k = "num" /\ av.n > 0 /\ av.n < 365 * Scale
    THEN (IF rv.k = "num" THEN Frac(rv.n, 365 * Scale - av.n) ELSE NaN)
    ELSE rv

\* pd.cut(x, bins=bins, labels=labels) on one cell, with pandas' defaults
\* right=True, include_lowest=False: label i for bins[i] < x <= bins[i+1],
\* and no category (NaN) outside every interval
CutCell(x, bins, labels) ==
    IF x.k = "num" /\ \E i \in 1..Len(labels) : bins[i] < x.n /\ x.n <= bins[i + 1]
    THEN Cat(labels[CHOOSE i \in 1..Len(labels) : bins[i] < x.n /\ x.n <= bins[i + 1]])
    ELSE NaN

price_bins == <<0, 200 * Scale, 500 * Scale, 1000 * Scale, Inf>>
price_labels == <<"Budget", "Mid-Range", "Premium", "Luxury">>
rating_bins == <<0, Dec(3, 50), Dec(4, 0), Dec(4, 50), Dec(5, 0)>>
rating_labels == <<"Poor", "Good", "Very Good", "Excellent">>
host_bins == <<0, 1 * Scale, 5 * Scale, 20 * Scale, Inf>>
host_labels == <<"Individual", "Small Host", "Professional", "Enterprise">>

AddValueScore(df) ==
    IF HasCol(df, overall_rating) /\ HasCol(df, price_per_night)
    THEN SetCol(df, value_score,
            [i \in 1..Len(df.rows) |->
                ValueScoreCell(Cell(df, df.rows[i], overall_rating),
                               Cell(df, df.rows[i], price_per_night))])
    ELSE df
AddDemandScore(df) ==
    IF HasCol(df, reviews_count) /\ HasCol(df, availability)
    THEN SetCol(df, demand_score,
            [i \in 1..Len(df.rows) |->
                DemandScoreCell(Cell(df, df.rows[i], reviews_count),
                                Cell(df, df.rows[i], availability))])
    ELSE df
AddPriceCategory(df) ==
    IF HasCol(df, price_per_night)
    THEN SetCol(df, price_category,
            [i \in 1..Len(df.rows) |->
                CutCell(Cell(df, df.rows[i], price_per_night), price_bins, price_labels)])
    ELSE df
AddRatingCategory(df) ==
    IF HasCol(df, overall_rating)
    THEN SetCol(df, rating_category,
            [i \in 1..Len(df.rows) |->
                CutCell(Cell(df, df.rows[i], overall_rating), rating_bins, rating_labels)])
    ELSE df
\* host_listings_count is cut as it came (no cleaning step covers it): pd.cut
\* raises on a repeated label (2-d input) and on text cells (str < int)
AddHostType(r) ==
    IF r.status # "ok" \/ ~HasCol(r.df, host_listings_count) THEN r
    ELSE IF DupCol(r.df, host_listings_count) THEN Raised("ValueError")
    ELSE IF \E i \in 1..Len(r.df.rows) :
                Cell(r.df, r.df.rows[i], host_listings_count).k = "str"
         THEN Raised("TypeError")
    ELSE Ok(SetCol(r.df, host_type,
            [i \in 1..Len(r.df.rows) |->
                CutCell(Cell(r.df, r.df.rows[i], host_listings_count),
                        host_bins, host_labels)]))
FeatureEngineering(r) ==
    IF r.status # "ok" THEN r
    ELSE AddHostType(Ok(AddRatingCategory(AddPriceCategory(
                            AddDemandScore(AddValueScore(r.df))))))

---------------------------------------------------------------------------
(* 9. final cleaning (lines 192-204) *)

\* every row kept, repeated ones included
KeepDuplicates(df) == df
\* df.drop_duplicates(): the first of each group of rows with identical
\* cells is kept.  Index labels grow with the position (MkTable, and every
\* filter keeps the order), so "earlier" is "smaller label".
drop_duplicates(df) ==
    LET First(row) ==
            ~\E k \in 1..Len(df.rows) : df.rows[k].v = row.v /\ df.rows[k].i < row.i
    IN  [df EXCEPT !.rows = SelectSeq(df.rows, First)]

\* df.dropna(subset=[col for col in critical_cols if col in df.columns])
dropna(df) ==
    LET subset == {c \in Range(critical_cols) : HasCol(df, c)}
        Complete(row) == \A c \in subset : Cell(df, row, c).k # "nan"
    IN  [df EXCEPT !.rows = SelectSeq(df.rows, Complete)]

\* the k-th smallest (k = 1..n) of a non-empty series of numbers
Kth(series, k) ==
    CHOOSE v \in {series[i].n : i \in DOMAIN series} :
        /\ Cardinality({i \in DOMAIN series : series[i].n < v}) < k
        /\ k <= Cardinality({i \in DOMAIN series : series[i].n <= v})

\* a quantile that takes the higher of the two neighbouring values
Quantile1000Higher(series, q) ==
    LET n    == Len(series)
        h    == (n - 1) * q
        lo   == h \div 1000
        fr   == h % 1000
    IN  1000 * (IF fr = 0 THEN Kth(series, lo + 1) ELSE Kth(series, lo + 2))

\* Series.quantile(q/1000), linear interpolation, times 1000 (exact):
\* position h = (n-1)*q/1000 between the sorted values lo = floor(h), lo + 1
Quantile1000(series, q) ==
    LET n    == Len(series)
        h    == (n - 1) * q
        lo   == h \div 1000
        fr   == h % 1000
        vlo  == Kth(series, lo + 1)
        vhi  == IF fr = 0 THEN vlo ELSE Kth(series, lo + 2)
    IN  vlo * 1000 + fr * (vhi - vlo)

\* a final cleaning without the percentile filter
RemoveOutliersNone(df) == df

\* price_99 = df['price_per_night'].quantile(0.995);
\* df = df[df['price_per_night'] <= price_99]   (an empty df stays empty)
RemoveOutliers(df) ==
    IF ~HasCol(df, price_per_night) \/ Len(df.rows) = 0 THEN df
    ELSE LET price_99 == Quantile1000(Col(df, price_per_night), 995)
             Kept(row) == Cell(df, row, price_per_night).n * 1000 <= price_99
         IN  [df EXCEPT !.rows = SelectSeq(df.rows, Kept)]

\* a final cleaning whose percentile sees the repeated rows
BeforeOutliersRepeated(r) ==
    IF r.status # "ok" THEN r ELSE Ok(dropna(r.df))

\* lines 192-197: the rows the percentile is computed over
BeforeOutliers(r) ==
    IF r.status # "ok" THEN r ELSE Ok(dropna(drop_duplicates(r.df)))
\* lines 199-204
OutlierFilter(b) ==
    IF b.status # "ok" THEN b ELSE Ok(RemoveOutliers(b.df))
FinalCleaning(r) == OutlierFilter(BeforeOutliers(r))

\* lines 36-186: sections 1 to 8, cleaning and feature engineering
Cleaned(df) ==
    FeatureEngineering(CoordinateCleaning(CategoricalCleaning(
        DateCleaning(NumericCleaning(RatingCleaning(PriceCleaning(
            Ok(StandardizeColumns(df)))))))))

\* lines 36-204: the transform applied to the loaded table
Preprocess(df) == FinalCleaning(Cleaned(df))

---------------------------------------------------------------------------
(* create_demo_data (lines 229-266).  np.random.seed(42) fixes every draw, *)
(* so the table is one constant; the draws themselves are stood in for by  *)
(* fixed values inside each distribution's range.                          *)

n_hotels == 500

hotel_types ==
    <<<<"H", "o", "t", "e", "l">>,
      <<"R", "e", "s", "o", "r", "t">>,
      <<"A", "p", "a", "r", "t", "m", "e", "n", "t">>,
      <<"V", "i", "l", "l", "a">>,
      <<"H", "o", "s", "t", "e", "l">>>>
room_types ==
    <<<<"P", "r", "i", "v", "a", "t", "e", " ", "R", "o", "o", "m">>,
      <<"E", "n", "t", "i", "r", "e", " ", "P", "l", "a", "c", "e">>,
      <<"S", "h", "a", "r", "e", "d", " ", "R", "o", "o", "m">>>>
locations ==
    <<<<"D", "o", "w", "n", "t", "o", "w", "n", " ", "D", "u", "b", "a", "i">>,
      <<"D", "u", "b", "a", "i", " ", "M", "a", "r", "i", "n", "a">>,
      <<"J", "u", "m", "e", "i", "r", "a", "h">>,
      <<"D", "e", "i", "r", "a">>,
      <<"B", "u", "s", "i", "n", "e", "s", "s", " ", "B", "a", "y">>,
      <<"P", "a", "l", "m", " ", "J", "u", "m", "e", "i", "r", "a", "h">>,
      <<"J", "B", "R">>,
      <<"A", "l", " ", "B", "a", "r", "s", "h", "a">>>>
amenities ==
    <<<<"w", "i", "f", "i">>,
      <<"p", "o", "o", "l">>,
      <<"p", "a", "r", "k", "i", "n", "g">>,
      <<"g", "y", "m">>,
      <<"s", "p", "a">>,
      <<"b", "r", "e", "a", "k", "f", "a", "s", "t">>,
      <<"r", "e", "s", "t", "a", "u", "r", "a", "n", "t">>>>

demo_columns ==
    <<hotel_name, price_per_night, overall_rating, reviews_count, hotel_type,
      room_type, location, availability, latitude, longitude,
      total_amenities_count, host_listings_count, minimum_nights>> \o amenities

\* row i (0-based) of the generated table
DemoRecord(i) ==
    <<Str(<<"H", "o", "t", "e", "l", " ">> \o IntDigits(i)),
      Num(Dec(15 + ((i * 37) % 1400), (i * 7) % 100)),
      Num(Dec(3, 0) + ((i * 13) % (2 * Scale))),
      Num((35 + ((i * 11) % 30)) * Scale),
      Str(hotel_types[((i * 3) % 5) + 1]),
      Str(room_types[((i * 5) % 3) + 1]),
      Str(locations[((i * 7) % 8) + 1]),
      Num(((i * 17) % 365) * Scale),
      Num(Dec(25, (i * 3) % 30)),
      Num(Dec(55, 10 + ((i * 3) % 30))),
      Num((5 + ((i * 7) % 25)) * Scale),
      Num((1 + ((i * 3) % 49)) * Scale),
      Num((1 + (i % 6)) * Scale)>>
    \o [a \in 1..Len(amenities) |-> Num(IF (i * (a + 2)) % 10 < 7 THEN Scale ELSE 0)]

create_demo_data ==
    MkTable(demo_columns, [r \in 1..n_hotels |-> DemoRecord(r - 1)])

\* The generator behind the draws.  Its state is a number; every draw moves
\* it on, and what is drawn depends on the state the drawing starts from.
random_seed == 42
\* a call that leaves the generator in the state it is in
NoSeed(g, n) == g
\* np.random.seed(n) with the generator in state g: the state it is put in
seed(g, n) == n % RngPeriod
\* the state after one more draw, by any code of the process
NextState(g) == (g + 1) % RngPeriod
\* row i of the table drawn (lines 245-264) with the generator in state g:
\* the name is not drawn; the other cells are those of create_demo_data
\* when g is the seeded state, and other draws of the same ranges otherwise
DrawnRecord(g, i) ==
    LET j == (i + ((g + RngPeriod - (random_seed % RngPeriod)) % RngPeriod)) % n_hotels
    IN  [k \in 1..Len(demo_columns) |->
            IF k = 1 THEN DemoRecord(i)[k] ELSE DemoRecord(j)[k]]
DrawnTable(g) ==
    MkTable(demo_columns, [r \in 1..n_hotels |-> DrawnRecord(g, r - 1)])
\* create_demo_data() called with the generator in state g: line 237 seeds
\* it, lines 245-264 draw; the table returned and the state left behind
DemoCall(g) == DrawnTable(seed(g, random_seed))
RngAfterDemo(g) == (seed(g, random_seed) + Len(demo_columns) - 1) % RngPeriod

---------------------------------------------------------------------------
(* load_and_preprocess_data (lines 12-34): the choice of the source *)

DefaultPath == "data/dubai_hotels.csv"
GivenPath == "given.csv"
Paths == {DefaultPath, GivenPath}

\* pd.read_csv(path): the table stored in the file, FileNotFoundError when
\* there is no such file
read_csv(dsk, path) ==
    IF dsk[path] = Absent THEN Raised("FileNotFoundError") ELSE Ok(dsk[path])

\* a source selection that falls back to the generated table for any
\* missing file
LoadSourceAnyFallback(fetched, path, dsk) ==
    IF fetched # Absent /\ ~IsEmpty(fetched) THEN Ok(fetched)
    ELSE LET file == read_csv(dsk, IF path # NoPath THEN path ELSE DefaultPath)
         IN  IF file.status = "raised" THEN Ok(create_demo_data) ELSE file

\* lines 23-34: session table, else the given file, else the bundled file
\* with the generated table as its fallback
LoadSource(fetched, path, dsk) ==
    IF fetched # Absent /\ ~IsEmpty(fetched) THEN Ok(fetched)
    ELSE IF path # NoPath THEN read_csv(dsk, path)
    ELSE IF read_csv(dsk, DefaultPath).status = "raised" THEN Ok(create_demo_data)
    ELSE read_csv(dsk, DefaultPath)

\* Objects.  The statements of lines 43-186 assign into the table df
\* refers to (df.columns = ..., df[col] = ...); which table that is depends
\* on the copies made before.  A reference is "session" (the table held in
\* st.session_state['fetched_data']), "file" (the table read_csv or
\* create_demo_data built) or "new" (a table no one else refers to).
\* a copy that hands back the table it was asked to copy
SameObject(ref) == ref
\* DataFrame.copy(): a new table with the same content
copy(ref) == "new"
\* the table df refers to from line 37 on: lines 25 and 37 on the session's
\* table, line 37 alone on a table built from a file
WorkingRef(fetched) ==
    IF fetched # Absent /\ ~IsEmpty(fetched) THEN copy(copy("session"))
    ELSE copy("file")
\* a table after the assignments of lines 43-186 were made into it, r being
\* their outcome.  The assignments made before an exception are not
\* followed: a run that raises is taken to leave the table as it was.
Assigned(df, r) == IF r.status = "ok" THEN r.df ELSE df
\* the session's table after the call: as it was, unless df referred to it,
\* in which case it holds what lines 43-186 assigned (lines 193-202 rebind
\* df and assign nothing)
SessionAfter(fetched, path, dsk) ==
    IF WorkingRef(fetched) # "session" THEN fetched
    ELSE Assigned(fetched, Cleaned(fetched))

\* the loaded table with its labels standardized and nothing else done:
\* no value filled in, no row dropped
BatchUncleaned(fetched, path, dsk) ==
    LET src == LoadSource(fetched, path, dsk)
    IN  IF src.status # "ok" THEN src ELSE Ok(StandardizeColumns(src.df))
\* lines 23-197: the call up to the percentile filter
Batch(fetched, path, dsk) ==
    LET src == LoadSource(fetched, path, dsk)
    IN  IF src.status # "ok" THEN src ELSE BeforeOutliers(Cleaned(src.df))

load_and_preprocess_data(fetched, path, dsk) ==
    OutlierFilter(Batch(fetched, path, dsk))

---------------------------------------------------------------------------
(* The raw tables of the model: for each source a schema and a pool of     *)
(* records; a raw table is any sequence of at most MaxRows pool records.   *)

\* the live-fetch client's records (_parse_hotel_data): typed values
LiveLabels ==
    <<hotel_name, price_per_night, overall_rating, reviews_count,
      availability, host_listings_count>>
LivePool ==
    {<<Str(<<"A">>), Num(Dec(199, 99)), Num(Dec(4, 50)), Num(Dec(10, 0)), Num(Dec(180, 0)), Num(Dec(1, 0))>>,
     <<Str(<<"B">>), Num(Dec(200, 0)), Num(Dec(0, 0)), Num(Dec(0, 0)), Num(Dec(180, 0)), Num(Dec(1, 0))>>,
     <<Str(<<"C">>), Num(Dec(0, 0)), Num(Dec(5, 0)), Num(Dec(3, 0)), Num(Dec(365, 0)), Num(Dec(1, 0))>>,
     <<Str(<<"D">>), Num(Dec(200, 1)), Num(Dec(3, 50)), Num(Dec(7, 0)), Num(Dec(180, 0)), Num(Dec(1, 0))>>,
     <<Str(<<"E">>), Num(Dec(1250, 50)), Num(Dec(4, 0)), Num(Dec(100, 0)), Num(Dec(180, 0)), Num(Dec(1, 0))>>,
     <<NaN, Num(Dec(500, 0)), Num(Dec(4, 50)), Num(Dec(5, 0)), Num(Dec(180, 0)), Num(Dec(1, 0))>>,
     <<Str(<<"A">>), Num(Dec(1000, 0)), Num(Dec(4, 51)), Num(Dec(10, 0)), Num(Dec(0, 0)), Num(Dec(1, 0))>>,
     <<Str(<<"F">>), Num(Dec(200, 0)), Num(Dec(4, 0)), Num(Dec(1, 0)), Num(Dec(180, 0)), Num(Dec(1, 0))>>}

\* a CSV file with free-form headers and text cells
CsvLabels ==
    <<<<" ", "N", "a", "m", "e">>,
      <<" ", "P", "r", "i", "c", "e", " ">>,
      <<"R", "a", "t", "i", "n", "g">>,
      <<"R", "e", "v", "i", "e", "w", "s">>>>
CsvPool ==
    {<<Str(<<"A", "t", "l", "a", "n", "t", "i", "s">>), Str(<<"A", "E", "D", " ", "1", ",", "2", "5", "0", ".", "5", "0">>), Str(<<"4", ".", "5">>), Str(<<"1", "2">>)>>,
     <<Str(<<" ", "B", " ">>), Str(<<"$", "1", "9", "9", ".", "9", "9">>), Str(<<"a", "b", "c">>), NaN>>,
     <<NaN, Str(<<"N", "/", "A">>), NaN, Str(<<"x">>)>>,
     <<Str(<<"C">>), Str(<<>>), Str(<<"7">>), Str(<<"3">>)>>,
     <<Str(<<"D">>), Str(<<"2", "0", "0", ".", "0", "1">>), Str(<<"-", "1">>), Str(<<"0">>)>>,
     <<Str(<<"E">>), Str(<<"1", ".", "2", ".", "3">>), Str(<<"4", ".", "0">>), Str(<<"1">>)>>,
     <<Str(<<"F">>), NaN, Str(<<"3", ".", "5">>), Str(<<"5">>)>>,
     <<Str(<<"G">>), Str(<<"-", "5", "0">>), Str(<<"0">>), Str(<<"2">>)>>}

\* bundled files: no price column; headers that collide once standardized;
\* alias-only headers with date, coordinate and host columns; no known column
NoPriceLabels ==
    <<<<"n", "a", "m", "e">>,
      <<"r", "a", "t", "i", "n", "g">>>>
NoPricePool ==
    {<<Str(<<" ", "X">>), Str(<<"4", ".", "5">>)>>,
     <<NaN, Str(<<"2">>)>>,
     <<Str(<<"Y">>), NaN>>}
DupLabels ==
    <<<<"P", "r", "i", "c", "e">>,
      <<"p", "r", "i", "c", "e">>>>
DupPool ==
    {<<Str(<<"1">>), Str(<<"2">>)>>,
     <<Str(<<"3">>), Str(<<"3">>)>>}
AliasLabels ==
    <<<<"P", "r", "o", "p", "e", "r", "t", "y", " ", "N", "a", "m", "e">>,
      <<"p", "r", "i", "c", "e", "_", "d", "i", "s", "p", "l", "a", "y">>,
      <<"n", "u", "m", "b", "e", "r", "_", "o", "f", "_", "r", "e", "v", "i", "e", "w", "s">>,
      <<"a", "v", "a", "i", "l", "a", "b", "i", "l", "i", "t", "y">>,
      <<"l", "a", "s", "t", "_", "r", "e", "v", "i", "e", "w">>,
      <<"l", "a", "t", "i", "t", "u", "d", "e">>,
      <<"h", "o", "s", "t", "_", "l", "i", "s", "t", "i", "n", "g", "s", "_", "c", "o", "u", "n", "t">>>>
AliasPool ==
    {<<Str(<<"P">>), Str(<<"$", "1", "0", "0">>), Str(<<"5">>), Str(<<"3", "6", "5">>), Str(<<"2", "0", "2", "4", "-", "0", "1", "-", "0", "5">>), Str(<<"2", "5", ".", "1">>), Num(Dec(3, 0))>>,
     <<Str(<<"Q">>), Str(<<"A", "E", "D", " ", "7", "0", "0">>), NaN, Str(<<"1", "0", "0">>), Str(<<"s", "o", "o", "n">>), NaN, Num(Dec(30, 0))>>,
     <<Str(<<"R">>), Str(<<"1", ",", "0", "0", "0", ".", "0", "0">>), Str(<<"8">>), Str(<<"0">>), NaN, Str(<<"x">>), Str(<<"m", "a", "n", "y">>)>>,
     <<NaN, Str(<<"1", "0", "0", ".", "0", "0">>), Str(<<"5">>), Str(<<"4", "0", "0">>), Str(<<"2", "0", "2", "4", "-", "0", "1", "-", "0", "5">>), Str(<<"2", "5", ".", "1">>), NaN>>}
OtherLabels ==
    <<<<"F", "o", "o">>>>
OtherPool ==
    {<<Str(<<"a">>)>>,
     <<Str(<<"b">>)>>}

\* bundled files with several aliases of each main column and no main
\* column, and with each main column next to an alias of it
MultiAliasLabels ==
    <<<<"n", "a", "m", "e">>,
      <<"p", "r", "o", "p", "e", "r", "t", "y", "_", "n", "a", "m", "e">>,
      <<"p", "r", "i", "c", "e">>,
      <<"p", "r", "i", "c", "e", "_", "d", "i", "s", "p", "l", "a", "y">>,
      <<"r", "a", "t", "i", "n", "g">>,
      <<"r", "e", "v", "i", "e", "w", "s">>,
      <<"n", "u", "m", "b", "e", "r", "_", "o", "f", "_", "r", "e", "v", "i", "e", "w", "s">>>>
MultiAliasPool ==
    {<<Str(<<"N", "1">>), Str(<<"P", "1">>), Str(<<"1", "0", "0">>), Str(<<"$", "2", "0", "0">>), Str(<<"4">>), Str(<<"5">>), Str(<<"6">>)>>,
     <<Str(<<"N", "2">>), Str(<<"P", "2">>), Str(<<"3", "0", "0", ".", "5">>), Str(<<"A", "E", "D", " ", "4", "0", "0">>), Str(<<"3", ".", "5">>), Str(<<"7">>), Str(<<"8">>)>>}
CanonLabels ==
    <<<<"h", "o", "t", "e", "l", "_", "n", "a", "m", "e">>,
      <<"n", "a", "m", "e">>,
      <<"p", "r", "i", "c", "e", "_", "p", "e", "r", "_", "n", "i", "g", "h", "t">>,
      <<"p", "r", "i", "c", "e">>,
      <<"o", "v", "e", "r", "a", "l", "l", "_", "r", "a", "t", "i", "n", "g">>,
      <<"r", "a", "t", "i", "n", "g">>,
      <<"r", "e", "v", "i", "e", "w", "s", "_", "c", "o", "u", "n", "t">>,
      <<"r", "e", "v", "i", "e", "w", "s">>>>
CanonPool ==
    {<<Str(<<"H", "1">>), Str(<<"N", "1">>), Num(0 - Dec(50, 0)), Str(<<"7", "5">>), Str(<<"4", ".", "5">>), Str(<<"2">>), Str(<<"9">>), Str(<<"1">>)>>,
     <<Str(<<"H", "2">>), Str(<<"N", "2">>), Num(Dec(120, 0)), Str(<<"6", "0">>), Str(<<"3">>), Str(<<"5">>), Str(<<"4">>), Str(<<"4", "0">>)>>}

RecordSeqs(pool) == UNION {[1..k -> pool] : k \in 0..MaxRows}
TablesOf(labels, pool) == {MkTable(labels, rs) : rs \in RecordSeqs(pool)}

LiveTables == {t \in TablesOf(LiveLabels, LivePool) : ~IsEmpty(t)}
GivenTables == TablesOf(CsvLabels, CsvPool)
BundledTables ==
    TablesOf(NoPriceLabels, NoPricePool) \cup TablesOf(DupLabels, DupPool)
    \cup TablesOf(AliasLabels, AliasPool) \cup TablesOf(OtherLabels, OtherPool)
    \cup TablesOf(MultiAliasLabels, MultiAliasPool) \cup TablesOf(CanonLabels, CanonPool)

---------------------------------------------------------------------------
(* The dashboard (app.py): the memoized loader, the sidebar filters        *)

\* render_sidebar (lines 128-138): the widgets' defaults, and the other
\* setting of the model; prices in AED, ratings in steps of 0.5
DefaultFilters == [price_min |-> 0, price_max |-> 10000 * Scale, min_rating |-> 0]
FilterChoices ==
    {DefaultFilters,
     [price_min |-> 200 * Scale, price_max |-> 915 * Scale, min_rating |-> Dec(4, 0)]}

\* 'fetched_data' in st.session_state and not ...['fetched_data'].empty
HasFetched(fetched) == fetched # Absent /\ ~IsEmpty(fetched)

\* @st.cache_data on load_and_preprocess_data, called without arguments:
\* the entry is keyed by the arguments alone, so there is one entry; a hit
\* returns it without running the body
CachedLoad(entry, fetched, dsk) ==
    IF entry.status = "ok" THEN entry
    ELSE load_and_preprocess_data(fetched, NoPath, dsk)
\* the entry after a call that gave r: a returned table is stored, an
\* exception is not
CacheAfter(entry, r) == IF r.status = "ok" THEN r ELSE entry

\* load_and_filter_data, lines 169-185: the table to filter, the loader
\* having given r.  With a fetched table a raising load propagates; without
\* one it is replaced by the generated table as it is; so is an empty table
PageTable(r, fetched) ==
    IF r.status = "raised"
    THEN IF HasFetched(fetched) THEN r ELSE Ok(create_demo_data)
    ELSE IF IsEmpty(r.df) THEN Ok(create_demo_data) ELSE r

\* filters whose price range is open at its upper end
ApplyFiltersBelowMax(df, f) ==
    LET InRange(row) ==
            LET x == Cell(df, row, price_per_night)
            IN  x.k = "num" /\ f.price_min <= x.n /\ x.n < f.price_max
        Rated(row) ==
            LET x == Cell(df, row, overall_rating)
            IN  x.k = "num" /\ x.n >= f.min_rating
        byPrice == IF HasCol(df, price_per_night)
                   THEN [df EXCEPT !.rows = SelectSeq(df.rows, InRange)] ELSE df
    IN  IF HasCol(df, overall_rating)
        THEN [byPrice EXCEPT !.rows = SelectSeq(byPrice.rows, Rated)] ELSE byPrice

\* filters whose rating test lets a missing rating pass
ApplyFiltersKeepMissing(df, f) ==
    LET InRange(row) ==
            LET x == Cell(df, row, price_per_night)
            IN  x.k = "num" /\ f.price_min <= x.n /\ x.n <= f.price_max
        Rated(row) ==
            LET x == Cell(df, row, overall_rating)
            IN  x.k = "nan" \/ (x.k = "num" /\ x.n >= f.min_rating)
        byPrice == IF HasCol(df, price_per_night)
                   THEN [df EXCEPT !.rows = SelectSeq(df.rows, InRange)] ELSE df
    IN  IF HasCol(df, overall_rating)
        THEN [byPrice EXCEPT !.rows = SelectSeq(byPrice.rows, Rated)] ELSE byPrice

\* load_and_filter_data, lines 187-198: the price range, then the minimum
\* rating; a comparison with a missing value is False
ApplyFilters(df, f) ==
    LET InRange(row) ==
            LET x == Cell(df, row, price_per_night)
            IN  x.k = "num" /\ f.price_min <= x.n /\ x.n <= f.price_max
        Rated(row) ==
            LET x == Cell(df, row, overall_rating)
            IN  x.k = "num" /\ x.n >= f.min_rating
        byPrice == IF HasCol(df, price_per_night)
                   THEN [df EXCEPT !.rows = SelectSeq(df.rows, InRange)] ELSE df
    IN  IF HasCol(df, overall_rating)
        THEN [byPrice EXCEPT !.rows = SelectSeq(byPrice.rows, Rated)] ELSE byPrice

\* load_and_filter_data, the loader having given r
FilterLoaded(r, fetched, f) ==
    IF PageTable(r, fetched).status = "ok"
    THEN Ok(ApplyFilters(PageTable(r, fetched).df, f))
    ELSE PageTable(r, fetched)

load_and_filter_data(entry, fetched, dsk, f) ==
    FilterLoaded(CachedLoad(entry, fetched, dsk), fetched, f)

---------------------------------------------------------------------------
(* The state machine: one call of load_and_preprocess_data on the chosen   *)
(* source, then the transform applied once more to the table it returned.  *)

Init ==
    /\ \E src \in {"session", "given", "bundled"} :
         \E t \in (CASE src = "session" -> LiveTables
                     [] src = "given"   -> GivenTables
                     [] OTHER           -> BundledTables) \cup {Absent} :
            /\ fetched_data = IF src = "session" THEN t ELSE Absent
            /\ file_path = IF src = "given" THEN GivenPath ELSE NoPath
            /\ disk = [p \in Paths |->
                        IF (src = "given" /\ p = GivenPath)
                           \/ (src = "bundled" /\ p = DefaultPath)
                        THEN t ELSE Absent]
    /\ batch = NotRun
    /\ result = NotRun
    /\ reapplied = NotRun
    /\ pc = "start"
    /\ cache = NotRun
    /\ filters = DefaultFilters
    /\ df_filtered = NotRun
    /\ page = "none"
    /\ authenticated = FALSE
    /\ data_source = NoSource
    /\ rng = 0
    /\ fetch_df = Absent

\* load_and_preprocess_data(file_path): lines 23-197, then lines 199-204
CallLoad ==
    /\ pc = "start"
    /\ batch' = Batch(fetched_data, file_path, disk)
    /\ result' = OutlierFilter(batch')
    /\ fetched_data' = SessionAfter(fetched_data, file_path, disk)
    /\ pc' = "loaded"
    /\ UNCHANGED <<file_path, disk, reapplied>>
    /\ UNCHANGED <<cache, filters, df_filtered, page>>
    /\ UNCHANGED <<authenticated, data_source, rng, fetch_df>>

\* the pipeline run on its own output
Reapply ==
    /\ pc = "loaded"
    /\ result.status = "ok"
    /\ reapplied' = Preprocess(result.df)
    /\ pc' = "reapplied"
    /\ UNCHANGED <<fetched_data, file_path, disk, batch, result>>
    /\ UNCHANGED <<cache, filters, df_filtered, page>>
    /\ UNCHANGED <<authenticated, data_source, rng, fetch_df>>

Next == CallLoad \/ Reapply

Spec == Init /\ [][Next]_vars

---------------------------------------------------------------------------
(* The dashboard's state machine: runs of main() on the fetch page with a  *)
(* search, and on an analysis page with some setting of the filters.       *)

\* the tables a search returns (fetch_hotels): records of the live-fetch
\* client, at most MaxFetchRows of them; no record when the request failed
FetchPool ==
    {<<Str(<<"A">>), Num(Dec(199, 99)), Num(Dec(4, 50)), Num(Dec(10, 0)), Num(Dec(180, 0)), Num(Dec(1, 0))>>,
     <<Str(<<"C">>), Num(Dec(0, 0)), Num(Dec(5, 0)), Num(Dec(3, 0)), Num(Dec(180, 0)), Num(Dec(1, 0))>>,
     <<Str(<<"E">>), Num(Dec(1250, 50)), Num(Dec(4, 0)), Num(Dec(100, 0)), Num(Dec(180, 0)), Num(Dec(1, 0))>>}
FetchResults ==
    {MkTable(LiveLabels, rs) :
        rs \in UNION {[1..k -> FetchPool] : k \in 0..MaxFetchRows}}

\* the bundled file of the dashboard: missing, a header without rows, a
\* usable CSV, a CSV whose price text makes the pipeline raise
AppBundled ==
    {Absent,
     MkTable(CsvLabels, <<>>),
     MkTable(CsvLabels,
        <<<<Str(<<"D">>), Str(<<"2", "0", "0", ".", "0", "1">>), Str(<<"-", "1">>), Str(<<"0">>)>>,
          <<Str(<<"G">>), Str(<<"-", "5", "0">>), Str(<<"0">>), Str(<<"2">>)>>,
          <<Str(<<"B">>), Str(<<"$", "1", "9", "9", ".", "9", "9">>), Str(<<"a", "b", "c">>), NaN>>>>),
     MkTable(CsvLabels,
        <<<<Str(<<"E">>), Str(<<"1", ".", "2", ".", "3">>), Str(<<"4", ".", "0">>), Str(<<"1">>)>>>>)}

AppInit ==
    /\ fetched_data = Absent
    /\ file_path = NoPath
    /\ \E b \in AppBundled :
          disk = [p \in Paths |-> IF p = DefaultPath THEN b ELSE Absent]
    /\ batch = NotRun
    /\ result = NotRun
    /\ reapplied = NotRun
    /\ pc = "app"
    /\ cache = NotRun
    /\ filters = DefaultFilters
    /\ df_filtered = NotRun
    /\ page = "none"
    /\ authenticated = FALSE
    /\ data_source = NoSource
    /\ rng = 0
    /\ fetch_df = Absent

\* auth.check_authentication (auth.py lines 262-265): the session's flag,
\* False when the key is missing
AlwaysAuthenticated(flag) == TRUE

check_authentication(flag) == flag

\* main() of a session that is not logged in (app.py lines 247-249):
\* render_login_page and return; a submitted form with valid credentials
\* sets the flag and asks for a rerun (auth.py lines 220-230)
RenderLogin ==
    /\ pc = "app"
    /\ ~check_authentication(authenticated)
    /\ \E valid \in BOOLEAN : authenticated' = valid
    /\ page' = "login"
    /\ UNCHANGED <<fetched_data, file_path, disk, batch, result, reapplied,
                   pc, cache, filters, df_filtered, data_source, rng,
                   fetch_df>>

\* main() with the sidebar's logout button pressed (app.py line 142,
\* auth.py lines 268-274 and 298-299): the flag is cleared and st.rerun
\* ends the run before any page is chosen; the rerun shows the login page
Logout ==
    /\ pc = "app"
    /\ check_authentication(authenticated)
    /\ authenticated' = FALSE
    /\ page' = "login"
    /\ UNCHANGED <<fetched_data, file_path, disk, batch, result, reapplied,
                   pc, cache, filters, df_filtered, data_source, rng,
                   fetch_df>>

\* render_data_fetch_page, line 341: an answer is stored when the request
\* was made and gave at least one row
StoredAlways(valid, df) == valid

Stored(valid, df) == valid /\ ~IsEmpty(df)

\* main() on the fetch page (render_data_fetch_page): invalid dates or a
\* blank location return before any request (lines 296-299, 323-326);
\* otherwise the answer is stored with its source when it has rows
\* (lines 332-344); fetch_hotels answers an empty table on a request
\* error, a parse error or no properties (lines 62-99)
Fetch ==
    /\ pc = "app"
    /\ check_authentication(authenticated)
    /\ \E valid \in BOOLEAN : \E df \in FetchResults :
          /\ fetch_df' = IF valid THEN df ELSE Absent
          /\ fetched_data' = IF Stored(valid, df) THEN df ELSE fetched_data
          /\ data_source' = IF Stored(valid, df) THEN "live_api" ELSE data_source
    /\ page' = "fetch"
    /\ UNCHANGED <<file_path, disk, batch, result, reapplied, pc,
                   cache, filters, df_filtered>>
    /\ UNCHANGED <<authenticated, rng>>

\* main() on an analysis page (lines 262-271), the sidebar set to f;
\* result is what this run's call of the loader gave; the loader's body
\* runs when the cache has no entry
RenderAnalysis ==
    /\ pc = "app"
    /\ check_authentication(authenticated)
    /\ result' = CachedLoad(cache, fetched_data, disk)
    /\ fetched_data' = IF cache.status = "ok" THEN fetched_data
                       ELSE SessionAfter(fetched_data, NoPath, disk)
    /\ cache' = CacheAfter(cache, result')
    /\ \E f \in FilterChoices :
          /\ filters' = f
          /\ IF PageTable(result', fetched_data).status = "ok"
             THEN /\ df_filtered' = FilterLoaded(result', fetched_data, f)
                  /\ page' = "analysis"
             ELSE /\ df_filtered' = df_filtered
                  /\ page' = "error"
    /\ UNCHANGED <<file_path, disk, batch, reapplied, pc>>
    /\ UNCHANGED <<authenticated, data_source, rng, fetch_df>>

AppNext == RenderLogin \/ Logout \/ Fetch \/ RenderAnalysis

AppSpec == AppInit /\ [][AppNext]_vars

---------------------------------------------------------------------------
(* The sample generator's state machine: calls of create_demo_data, and     *)
(* draws by other code of the process in between.  result is the table the *)
(* last call returned; pc counts the calls made: "demo", "demo1", "demo2"  *)
(* (two or more).                                                          *)

DemoInit ==
    /\ fetched_data = Absent
    /\ file_path = NoPath
    /\ disk = [p \in Paths |-> Absent]
    /\ batch = NotRun
    /\ result = NotRun
    /\ reapplied = NotRun
    /\ pc = "demo"
    /\ cache = NotRun
    /\ filters = DefaultFilters
    /\ df_filtered = NotRun
    /\ page = "none"
    /\ authenticated = FALSE
    /\ data_source = NoSource
    /\ rng \in 0..(RngPeriod - 1)
    /\ fetch_df = Absent

CallDemo ==
    /\ pc \in {"demo", "demo1", "demo2"}
    /\ result' = Ok(DemoCall(rng))
    /\ rng' = RngAfterDemo(rng)
    /\ pc' = IF pc = "demo" THEN "demo1" ELSE "demo2"
    /\ UNCHANGED <<fetched_data, file_path, disk, batch, reapplied,
                   cache, filters, df_filtered, page, authenticated, data_source,
                   fetch_df>>

Draw ==
    /\ pc \in {"demo", "demo1", "demo2"}
    /\ rng' = NextState(rng)
    /\ UNCHANGED <<fetched_data, file_path, disk, batch, result, reapplied, pc,
                   cache, filters, df_filtered, page, authenticated, data_source,
                   fetch_df>>

DemoNext == CallDemo \/ Draw

DemoSpec == DemoInit /\ [][DemoNext]_vars

---------------------------------------------------------------------------
(* Claims *)

\* the raw table the call loaded (an outcome: reading the file may raise)
Loaded == LoadSource(fetched_data, file_path, disk)
Returned == pc # "start" /\ result.status = "ok"
Prices(df) == Col(df, price_per_night)

\* C1 as stated: the pipeline applied to its own output P(T) returns a
\* table equal to P(T) (no row dropped, no value changed).
C1_Idempotent ==
    pc = "reapplied" => reapplied.status = "ok" /\ reapplied.df = result.df

\* C1 amended: the pipeline applied to its own output P(T) raises nothing,
\* changes no label, no value and no row order, and returns exactly the rows
\* of P(T) whose price_per_night is at most the 99.5th percentile of P(T)'s
\* own prices (all rows when P(T) has no price_per_night column).
C1_ReapplyOnlyFiltersOutliers ==
    pc = "reapplied" => reapplied = Ok(RemoveOutliers(result.df))

\* a second pass that did drop a row and kept another
C1_Witness ==
    /\ pc = "reapplied"
    /\ reapplied.status = "ok"
    /\ Len(reapplied.df.rows) >= 1
    /\ Len(reapplied.df.rows) < Len(result.df.rows)

\* C2 as stated: every returned row's price_per_night is at most the 99.5th
\* percentile of price_per_night over the returned table itself.
C2_BelowOwnPercentile ==
    (Returned /\ HasCol(result.df, price_per_night) /\ Len(result.df.rows) > 0) =>
        LET p995 == Quantile1000(Prices(result.df), 995)
        IN  \A i \in 1..Len(result.df.rows) : Prices(result.df)[i].n * 1000 <= p995

\* C2 amended: every returned row's price_per_night is at most the 99.5th
\* percentile of price_per_night over the rows that survived deduplication
\* and null-dropping, the batch the filter was computed on, and every such
\* surviving row at or below that percentile is returned.
C2_BelowBatchPercentile ==
    (Returned /\ HasCol(result.df, price_per_night)) =>
        LET p995 == Quantile1000(Prices(batch.df), 995)
            AtMost(row) == Cell(batch.df, row, price_per_night).n * 1000 <= p995
        IN  result.df.rows = SelectSeq(batch.df.rows, AtMost)

\* a returned table of two or more priced rows from which the filter
\* removed a row
C2_Witness ==
    /\ Returned
    /\ HasCol(result.df, price_per_night)
    /\ Len(result.df.rows) >= 2
    /\ Len(result.df.rows) < Len(batch.df.rows)

\* the loaded table with standardized labels: the raw columns by the names
\* the pipeline knows them under
Std == StandardizeColumns(Loaded.df)
\* the column of the input std a main column is taken from: itself, else
\* its first alias
RawSource(std, target, aliases) ==
    IF HasCol(std, target) THEN <<target>> ELSE FirstPresent(std, aliases)
\* the cell behind a main column in the row of std with index label i
RawCell(std, i, target, aliases) ==
    Cell(std, std.rows[i + 1], RawSource(std, target, aliases)[1])
\* the row of std with index label i lacked the main column's value
RawMissing(std, i, target, aliases) ==
    /\ RawSource(std, target, aliases) # <<>>
    /\ RawCell(std, i, target, aliases).k = "nan"

\* C3 as stated: no returned row originates from an input row whose
\* hotel_name or price_per_night was missing in the raw input.
C3_MissingRowsDropped ==
    Returned =>
        LET std == Std
        IN  \A k \in 1..Len(result.df.rows) :
                /\ ~RawMissing(std, result.df.rows[k].i, hotel_name,
                               <<name, property_name>>)
                /\ ~RawMissing(std, result.df.rows[k].i, price_per_night,
                               <<price, price_display>>)

\* C4 as stated: whenever the returned table has an overall_rating column,
\* every row's overall_rating is a number between 0 and 5, rows whose raw
\* rating was missing or non-numeric included.
C4_RatingInRange ==
    (Returned /\ HasCol(result.df, overall_rating)) =>
        \A k \in 1..Len(result.df.rows) :
            LET x == Cell(result.df, result.df.rows[k], overall_rating)
            IN  x.k = "num" /\ 0 <= x.n /\ x.n <= 5 * Scale

\* C4 amended: whenever the returned table has an overall_rating column,
\* every row's overall_rating is either a number between 0 and 5 or missing,
\* and it is missing exactly for the rows whose raw rating was missing or
\* was no number.
C4_PresentRatingInRange ==
    (Returned /\ HasCol(result.df, overall_rating)) =>
      LET std == Std
      IN  \A k \in 1..Len(result.df.rows) :
            LET x   == Cell(result.df, result.df.rows[k], overall_rating)
                raw == RawCell(std, result.df.rows[k].i, overall_rating, <<rating>>)
                numeric == \/ raw.k = "num"
                           \/ /\ raw.k = "str"
                              /\ \E j \in 1..Len(raw.s) : raw.s[j] \in Digits
                              /\ \A j \in 1..Len(raw.s) :
                                     raw.s[j] \in Digits \cup {".", "-", " "}
            IN  IF numeric THEN x.k = "num" /\ 0 <= x.n /\ x.n <= 5 * Scale
                ELSE x.k = "nan"

\* a returned table with a rating clamped down to 5 from a raw 7, and a row
\* whose non-numeric raw rating stayed missing
C4_Witness ==
    /\ Returned
    /\ HasCol(result.df, overall_rating)
    /\ LET std == Std
       IN  /\ \E k \in 1..Len(result.df.rows) :
                /\ RawCell(std, result.df.rows[k].i, overall_rating, <<rating>>)
                        = Str(<<"7">>)
                /\ Cell(result.df, result.df.rows[k], overall_rating) = Num(5 * Scale)
           /\ \E k \in 1..Len(result.df.rows) :
                /\ RawCell(std, result.df.rows[k].i, overall_rating, <<rating>>).k = "str"
                /\ Cell(result.df, result.df.rows[k], overall_rating).k = "nan"

\* C5 as stated: every returned row whose overall_rating is exactly 4.5 has
\* rating_category 'Excellent'.
C5_FourPointFiveIsExcellent ==
    (Returned /\ HasCol(result.df, overall_rating)) =>
        \A k \in 1..Len(result.df.rows) :
            Cell(result.df, result.df.rows[k], overall_rating) = Num(Dec(4, 50))
                => Cell(result.df, result.df.rows[k], rating_category) = Cat("Excellent")

\* the label of the right-open bucket [bins[i], bins[i+1]) that holds x
RightOpenLabel(x, bins, labels) ==
    labels[CHOOSE i \in 1..Len(labels) : bins[i] <= x /\ x < bins[i + 1]]

\* C6 as stated: price_category is the label of the right-open bucket of
\* the price: [0,200) Budget, [200,500) Mid-Range, [500,1000) Premium,
\* [1000,inf) Luxury.
C6_RightOpenPriceBuckets ==
    (Returned /\ HasCol(result.df, price_per_night)) =>
        \A k \in 1..Len(result.df.rows) :
            LET x == Cell(result.df, result.df.rows[k], price_per_night)
            IN  Cell(result.df, result.df.rows[k], price_category)
                    = Cat(RightOpenLabel(x.n, price_bins, price_labels))

\* C7 as stated: in every returned table each row's price_category is one
\* of the four price labels and each row's rating_category one of the four
\* rating labels, rows with price 0 or rating 0 included.
C7_EveryRowCategorized ==
    Returned =>
        \A k \in 1..Len(result.df.rows) :
            /\ HasCol(result.df, price_category) =>
                \E l \in Range(price_labels) :
                    Cell(result.df, result.df.rows[k], price_category) = Cat(l)
            /\ HasCol(result.df, rating_category) =>
                \E l \in Range(rating_labels) :
                    Cell(result.df, result.df.rows[k], rating_category) = Cat(l)

\* C8 as stated: on every candidate price column of the loaded table
\* clean_currency_column raises nothing and returns a number for each cell,
\* 0 for a text without a number in it.
C8_PriceCleaningNeverRaises ==
    (pc # "start" /\ Loaded.status = "ok") =>
        LET std == Std
        IN  \A c \in Range(price_columns) :
                (HasCol(std, c) /\ ~DupCol(std, c)) =>
                    LET raw     == Col(std, c)
                        cleaned == Computed(clean_currency_column(raw))
                    IN  \A i \in 1..Len(raw) :
                            /\ cleaned[i].k = "num"
                            /\ StripCurrency(AsStr(raw[i])) = <<>> => cleaned[i] = Num(0)

\* C9 as stated: for every raw table that was loaded, whatever its labels
\* and cells, load_and_preprocess_data returns a table and raises nothing.
C9_NeverRaises ==
    (pc # "start" /\ Loaded.status = "ok") => result.status = "ok"

\* there is no fetched table in the session
NoFetched == fetched_data = Absent \/ IsEmpty(fetched_data)
\* the file the call is to load: the given path, else the bundled file
FileToLoad == IF file_path # NoPath THEN file_path ELSE DefaultPath

C11_RenderUsesLatestFetch ==
    (page = "analysis" /\ HasFetched(fetched_data)) =>
        df_filtered =
            Ok(ApplyFilters(load_and_preprocess_data(fetched_data, NoPath, disk).df,
                            filters))

\* C12: in every returned table with a value_score column, a row with a
\* price above 0 has value_score = (overall_rating / price_per_night) * 100
\* (missing when the rating is missing), and a row with price 0 has
\* value_score exactly 0.
C12_ValueScore ==
    (Returned /\ HasCol(result.df, value_score)) =>
        \A i \in 1..Len(result.df.rows) :
            LET row == result.df.rows[i]
                pr  == Cell(result.df, row, price_per_night)
                rt  == Cell(result.df, row, overall_rating)
                vs  == Cell(result.df, row, value_score)
            IN  /\ pr.k = "num" /\ pr.n >= 0
                /\ (pr.n > 0 /\ rt.k = "num") =>
                       (vs.k = "frac" /\ vs.n = rt.n * 100 /\ vs.d = pr.n)
                /\ (pr.n > 0 /\ rt.k # "num") => vs.k = "nan"
                /\ pr.n = 0 => vs = Num(0)
\* a returned table with a free row (score 0) and a priced, rated row
C12_Witness ==
    /\ Returned /\ HasCol(result.df, value_score)
    /\ \E i, j \in 1..Len(result.df.rows) :
          /\ Cell(result.df, result.df.rows[i], price_per_night) = Num(0)
          /\ Cell(result.df, result.df.rows[i], overall_rating).n > 0
          /\ Cell(result.df, result.df.rows[i], value_score) = Num(0)
          /\ Cell(result.df, result.df.rows[j], price_per_night).n > 0
          /\ Cell(result.df, result.df.rows[j], value_score).k = "frac"

\* C13: in every returned table with a demand_score column, a row with
\* 0 < availability < 365 has demand_score = reviews_count / (365 -
\* availability), and every other row (availability 0 and 365 included)
\* has demand_score = reviews_count.
C13_DemandScore ==
    (Returned /\ HasCol(result.df, demand_score)) =>
        \A i \in 1..Len(result.df.rows) :
            LET row == result.df.rows[i]
                av  == Cell(result.df, row, availability)
                rv  == Cell(result.df, row, reviews_count)
                ds  == Cell(result.df, row, demand_score)
            IN  /\ av.k = "num" /\ rv.k = "num"
                /\ (0 < av.n /\ av.n < 365 * Scale) =>
                       (ds.k = "frac" /\ ds.n = rv.n /\ ds.d = 365 * Scale - av.n)
                /\ (av.n <= 0 \/ av.n >= 365 * Scale) => ds = rv
\* a returned table with a row at availability 365 and one at 180
C13_Witness ==
    /\ Returned /\ HasCol(result.df, demand_score)
    /\ \E i, j \in 1..Len(result.df.rows) :
          /\ Cell(result.df, result.df.rows[i], availability) = Num(365 * Scale)
          /\ Cell(result.df, result.df.rows[i], reviews_count).n > 0
          /\ Cell(result.df, result.df.rows[i], demand_score)
                = Cell(result.df, result.df.rows[i], reviews_count)
          /\ Cell(result.df, result.df.rows[j], availability) = Num(180 * Scale)
          /\ Cell(result.df, result.df.rows[j], demand_score).k = "frac"

\* C14 as stated: on every candidate price column of the loaded table,
\* clean_currency_column returns for each price text the number written
\* by the digits and points left in it, and 0 when none is left.
C14_CleanedValue ==
    (pc # "start" /\ Loaded.status = "ok") =>
        LET std == Std
        IN  \A c \in Range(price_columns) :
                (HasCol(std, c) /\ ~DupCol(std, c)) =>
                    LET raw     == Col(std, c)
                        cleaned == Computed(clean_currency_column(raw))
                    IN  \A i \in 1..Len(raw) :
                            raw[i].k = "str" =>
                                LET left == Filter(raw[i].s, Digits \cup {"."})
                                IN  /\ cleaned[i].k = "num"
                                    /\ cleaned[i].n =
                                          IF left = <<>> THEN 0 ELSE FloatValue(left)

\* C15: no two rows of a returned table have identical cells in every
\* column, whatever the input (inputs with repeated rows included).
C15_NoIdenticalRows ==
    Returned =>
        \A i, j \in 1..Len(result.df.rows) :
            i # j => result.df.rows[i].v # result.df.rows[j].v
\* an input holding the same record twice, returned once
C15_Witness ==
    /\ Returned
    /\ \E i, j \in 1..Len(Loaded.df.rows) :
          /\ i < j
          /\ Loaded.df.rows[i].v = Loaded.df.rows[j].v
          /\ \E k \in 1..Len(result.df.rows) :
                result.df.rows[k].i = Loaded.df.rows[i].i

\* C16: every row of a returned table has a hotel_name that is not null
\* and a price_per_night that is not null, for each of the two columns the
\* table has.
C16_CriticalNotNull ==
    Returned =>
        \A c \in Range(critical_cols) :
            HasCol(result.df, c) =>
                \A k \in 1..Len(result.df.rows) :
                    Cell(result.df, result.df.rows[k], c).k # "nan"
\* a returned row whose raw name was missing, and one whose raw price was
C16_Witness ==
    /\ Returned
    /\ HasCol(result.df, hotel_name) /\ HasCol(result.df, price_per_night)
    /\ LET std == Std
       IN  \E k \in 1..Len(result.df.rows) :
               \/ RawMissing(std, result.df.rows[k].i, hotel_name,
                             <<name, property_name>>)
               \/ RawMissing(std, result.df.rows[k].i, price_per_night,
                             <<price, price_display>>)

\* C17: every row of a returned table with a price_per_night column has a
\* price_per_night that is a number >= 0, raw prices that were negative
\* numbers or texts with a minus sign included.
C17_PriceNotNegative ==
    (Returned /\ HasCol(result.df, price_per_night)) =>
        \A k \in 1..Len(result.df.rows) :
            LET x == Cell(result.df, result.df.rows[k], price_per_night)
            IN  x.k = "num" /\ x.n >= 0
\* a returned row whose raw price was written with a minus sign
C17_Witness ==
    /\ Returned /\ HasCol(result.df, price_per_night)
    /\ LET std == Std
       IN  \E k \in 1..Len(result.df.rows) :
               LET raw == AsStr(RawCell(std, result.df.rows[k].i, price_per_night,
                                        <<price, price_display>>))
               IN  /\ raw # <<>> /\ Head(raw) = "-"
                   /\ Cell(result.df, result.df.rows[k], price_per_night).n > 0

\* the main columns, each with the cleaning of its section and its aliases
\* in the declared order
Canonical ==
    {[target |-> price_per_night, step |-> "price", aliases |-> <<price, price_display>>],
     [target |-> overall_rating, step |-> "rating", aliases |-> <<rating>>],
     [target |-> reviews_count, step |-> "numeric", aliases |-> <<reviews, number_of_reviews>>],
     [target |-> hotel_name, step |-> "categorical", aliases |-> <<name, property_name>>]}

\* C18: in every returned table each main column (price_per_night,
\* overall_rating, reviews_count, hotel_name) is, when the input has it,
\* the input's own column cleaned, never an alias's; else it equals the
\* first alias the input has, in the order price -> price_display, rating,
\* reviews -> number_of_reviews, name -> property_name; and it is absent
\* when the input has neither.
C18_CanonicalResolution ==
    Returned =>
        LET std == Std
        IN  \A m \in Canonical :
              LET has == {k \in 1..Len(m.aliases) : HasCol(std, m.aliases[k])}
              IN  IF HasCol(std, m.target)
                  THEN LET own == Computed(Clean(m.step, Col(std, m.target)))
                       IN  \A r \in 1..Len(result.df.rows) :
                               Cell(result.df, result.df.rows[r], m.target)
                                   = own[result.df.rows[r].i + 1]
                  ELSE IF has # {}
                  THEN LET first == CHOOSE k \in has : \A j \in has : k <= j
                       IN  /\ HasCol(result.df, m.target)
                           /\ \A r \in 1..Len(result.df.rows) :
                                 Cell(result.df, result.df.rows[r], m.target)
                                     = Cell(result.df, result.df.rows[r], m.aliases[first])
                  ELSE ~HasCol(result.df, m.target)
\* a returned row of an input with name and property_name and no
\* hotel_name: hotel_name is the name, which differs from the property_name
C18_Witness ==
    /\ Returned
    /\ LET std == Std
       IN  /\ ~HasCol(std, hotel_name)
           /\ HasCol(std, name) /\ HasCol(std, property_name)
    /\ \E r \in 1..Len(result.df.rows) :
          /\ Cell(result.df, result.df.rows[r], hotel_name)
                = Cell(result.df, result.df.rows[r], name)
          /\ Cell(result.df, result.df.rows[r], hotel_name)
                # Cell(result.df, result.df.rows[r], property_name)
          /\ Cell(result.df, result.df.rows[r], price_per_night)
                # Cell(result.df, result.df.rows[r], price_display)

\* the derived columns, each with the main columns it is computed from
Derived ==
    {[col |-> value_score, needs |-> {overall_rating, price_per_night}],
     [col |-> demand_score, needs |-> {reviews_count, availability}],
     [col |-> price_category, needs |-> {price_per_night}],
     [col |-> rating_category, needs |-> {overall_rating}],
     [col |-> host_type, needs |-> {host_listings_count}]}
\* the input std has the column c once aliases are resolved
Resolvable(std, c) ==
    \/ HasCol(std, c)
    \/ \E m \in Canonical :
          m.target = c /\ \E k \in 1..Len(m.aliases) : HasCol(std, m.aliases[k])

\* C19 as stated: for every loaded table and every derived column of which
\* a required column is absent after alias resolution, the call raises
\* nothing and returns a table without that derived column.
C19_GatedFeatures ==
    (pc # "start" /\ Loaded.status = "ok") =>
        LET std == Std
        IN  \A d \in Derived :
                (\E c \in d.needs : ~Resolvable(std, c)) =>
                    result.status = "ok" /\ ~HasCol(result.df, d.col)

\* C20: a call of load_and_preprocess_data leaves the fetched table held in
\* the session as it was: the same column labels, rows and values.
C20_InputUnchanged ==
    [][(pc = "start" /\ pc' = "loaded") => fetched_data' = fetched_data]_vars
\* the call has run on a fetched table and returned a table with a derived
\* column, which the session's table does not have
C20_Witness ==
    /\ pc = "loaded"
    /\ NoFetched = FALSE
    /\ result.status = "ok"
    /\ HasCol(result.df, value_score) /\ HasCol(result.df, price_category)
    /\ ~HasCol(fetched_data, value_score) /\ ~HasCol(fetched_data, price_category)
    /\ Len(result.df.rows) > 0

\* C21: every call of create_demo_data returns a table of exactly 500
\* rows, and the table an earlier call returned, whatever was drawn from
\* the generator in between; it is the table the pipeline falls back on.
C21_DemoDeterministic ==
    [][(pc \in {"demo", "demo1", "demo2"} /\ result'.status = "ok") =>
          /\ Len(result'.df.rows) = 500
          /\ result'.df = create_demo_data
          /\ result.status = "ok" => result' = result]_vars
\* two calls were made and the generator has been drawn from since the
\* last one
C21_Witness ==
    /\ pc = "demo2"
    /\ result.status = "ok"
    /\ rng # RngAfterDemo(rng)

\* C22: in every run of the app the loader is called and a page other than
\* the login page is rendered only when the session's authenticated flag
\* is true at that run; a run of a session that is not authenticated
\* renders the login page and touches neither the loader's result, its
\* cache nor the filtered table
C22_AuthenticationGate ==
    [][/\ (\/ page' \in {"analysis", "fetch", "error"}
           \/ result' # result
           \/ cache' # cache
           \/ df_filtered' # df_filtered) => authenticated
       /\ ~authenticated =>
             /\ page' = "login"
             /\ UNCHANGED <<result, cache, df_filtered, fetched_data>>]_vars

\* a session that rendered a report, logged out, and is shown the login page
C22_Witness ==
    /\ pc = "app"
    /\ ~authenticated
    /\ page = "login"
    /\ df_filtered.status = "ok"
    /\ cache.status = "ok"

\* the segmentation the methodology page describes (page_modules/notes.py
\* lines 48-49): the quarter of the table's prices that x falls in
QuartileLabel(series, x) ==
    IF x.n * 1000 <= Quantile1000(series, 250) THEN "Budget"
    ELSE IF x.n * 1000 <= Quantile1000(series, 500) THEN "Mid-Range"
    ELSE IF x.n * 1000 <= Quantile1000(series, 750) THEN "Premium"
    ELSE "Luxury"

\* C23: the price category of every returned row is the quarter of the
\* returned table's prices that the row's price falls in (Budget, Mid-Range,
\* Premium, Luxury by the table's own quartiles)
C23_QuartileSegmentation ==
    (Returned /\ HasCol(result.df, price_category)) =>
        \A k \in 1..Len(result.df.rows) :
            Cell(result.df, result.df.rows[k], price_category) =
                Cat(QuartileLabel(Col(result.df, price_per_night),
                                  Cell(result.df, result.df.rows[k], price_per_night)))

\* C24: the percentile is computed over the rows that survive the removal
\* of exact duplicates and of rows missing hotel_name or price_per_night:
\* those rows hold no two identical rows and no missing critical value,
\* the returned table is exactly those of them whose price is at most their
\* 99.5th percentile, and an extreme row repeated in the fetched table
\* counts once, so it is removed like a single one
C24_FinalizerOrdering ==
    (Returned /\ batch.status = "ok" /\ HasCol(batch.df, price_per_night)) =>
        LET b      == batch.df
            Price(df, row) == Cell(df, row, price_per_night).n
            p995   == Quantile1000(Prices(b), 995)
            Kept(row) == Price(b, row) * 1000 <= p995
            raw    == fetched_data.rows
            Top(i) == \A k \in 1..Len(raw) :
                          Price(fetched_data, raw[k]) <= Price(fetched_data, raw[i])
        IN  /\ \A i, j \in 1..Len(b.rows) : b.rows[i].v = b.rows[j].v => i = j
            /\ \A i \in 1..Len(b.rows) : \A c \in Range(critical_cols) :
                   HasCol(b, c) => Cell(b, b.rows[i], c).k # "nan"
            /\ result.df.cols = b.cols
            /\ result.df.rows = IF Len(b.rows) = 0 THEN b.rows
                                ELSE SelectSeq(b.rows, Kept)
            /\ (/\ HasFetched(fetched_data)
                /\ \E i, j \in 1..Len(raw) : i # j /\ Top(i) /\ raw[i].v = raw[j].v
                /\ \E i \in 1..Len(raw) : ~Top(i)
                /\ \A i, j \in 1..Len(raw) : (Top(i) /\ Top(j)) => raw[i].v = raw[j].v)
               => \A k \in 1..Len(result.df.rows) : \A i \in 1..Len(raw) :
                      Top(i) => Price(result.df, result.df.rows[k])
                                   < Price(fetched_data, raw[i])

\* a fetched table that repeats its dearest row and has a cheaper one: the
\* cheaper row alone is returned
C24_Witness ==
    /\ Returned
    /\ HasFetched(fetched_data)
    /\ Len(fetched_data.rows) = 3
    /\ fetched_data.rows[1].v = fetched_data.rows[2].v
    /\ Cell(fetched_data, fetched_data.rows[1], price_per_night).n
           > Cell(fetched_data, fetched_data.rows[3], price_per_night).n
    /\ Len(batch.df.rows) = 2
    /\ Len(result.df.rows) = 1

\* a row of df lies within the sidebar's ranges f, for the columns df has
WithinFilters(df, row, f) ==
    /\ HasCol(df, price_per_night) =>
          LET x == Cell(df, row, price_per_night)
          IN  x.k = "num" /\ f.price_min <= x.n /\ x.n <= f.price_max
    /\ HasCol(df, overall_rating) =>
          LET x == Cell(df, row, overall_rating)
          IN  x.k = "num" /\ x.n >= f.min_rating

\* C25: every row handed to a renderer has its price within
\* [price_min, price_max] and its rating at least min_rating, for the
\* columns that exist, and every row of the table the loader returned to
\* this run that satisfies both is among the rows handed over
C25_RangeFilters ==
    (pc = "app" /\ page = "analysis" /\ df_filtered.status = "ok") =>
        /\ \A k \in 1..Len(df_filtered.df.rows) :
               WithinFilters(df_filtered.df, df_filtered.df.rows[k], filters)
        /\ (result.status = "ok" /\ ~IsEmpty(result.df)) =>
               \A k \in 1..Len(result.df.rows) :
                   WithinFilters(result.df, result.df.rows[k], filters) =>
                       \E j \in 1..Len(df_filtered.df.rows) :
                           df_filtered.df.rows[j] = result.df.rows[k]

\* narrowed ranges that keep some rows of the loaded table and drop others,
\* one of the kept rows priced at the upper limit itself
C25_Witness ==
    /\ pc = "app" /\ page = "analysis" /\ df_filtered.status = "ok"
    /\ result.status = "ok"
    /\ filters # DefaultFilters
    /\ Len(df_filtered.df.rows) > 0
    /\ Len(df_filtered.df.rows) < Len(result.df.rows)
    /\ \E k \in 1..Len(df_filtered.df.rows) :
           Cell(df_filtered.df, df_filtered.df.rows[k], price_per_night).n
               = filters.price_max

\* the two session keys of the fetch page agree
KeysAgree(fetched, source) ==
    /\ (source = "live_api") <=> (fetched # Absent)
    /\ fetched # Absent => ~IsEmpty(fetched)

\* C26: over any sequence of runs, session 'fetched_data', when present, is
\* a non-empty table, the answer of the latest fetch that gave rows, and
\* 'data_source' is 'live_api' exactly when 'fetched_data' is present: a
\* fetch that gives rows stores its answer and the source, a fetch that
\* fails (no request made, or an empty answer) and every other run leave
\* both keys as they were
C26_FetchedSession ==
    [][pc = "app" =>
        /\ KeysAgree(fetched_data, data_source)
        /\ KeysAgree(fetched_data', data_source')
        /\ IF page' = "fetch" /\ fetch_df' # Absent /\ ~IsEmpty(fetch_df')
           THEN fetched_data' = fetch_df' /\ data_source' = "live_api"
           ELSE UNCHANGED <<fetched_data, data_source>>]_vars

\* a fetch that gave no rows, after one that did: the stored table stays
C26_Witness ==
    /\ pc = "app" /\ page = "fetch"
    /\ fetch_df # Absent /\ IsEmpty(fetch_df)
    /\ fetched_data # Absent /\ Len(fetched_data.rows) > 0
    /\ data_source = "live_api"

\* the rows of df number at least two and exactly one has the highest price
UniqueDearest(df) ==
    /\ HasCol(df, price_per_night)
    /\ Len(df.rows) >= 2
    /\ \E i \in 1..Len(df.rows) : \A k \in 1..Len(df.rows) :
           k # i => Cell(df, df.rows[k], price_per_night).n
                       < Cell(df, df.rows[i], price_per_night).n

\* the rows of after are rows of before, fewer, and none has before's
\* highest price
DearestRemoved(before, after) ==
    /\ Len(after.rows) < Len(before.rows)
    /\ \A j \in 1..Len(after.rows) :
           /\ \E k \in 1..Len(before.rows) : before.rows[k] = after.rows[j]
           /\ \E k \in 1..Len(before.rows) :
                  Cell(after, after.rows[j], price_per_night).n
                      < Cell(before, before.rows[k], price_per_night).n

\* C27 as stated, its consequence: each re-application of the pipeline to
\* its own output with two or more distinct prices removes at least one
\* more row
C27_ReapplyRemovesRow ==
    (/\ pc = "reapplied" /\ reapplied.status = "ok"
     /\ HasCol(result.df, price_per_night)
     /\ \E i, j \in 1..Len(result.df.rows) :
            Cell(result.df, result.df.rows[i], price_per_night)
                # Cell(result.df, result.df.rows[j], price_per_night))
    => Len(reapplied.df.rows) < Len(result.df.rows)

\* C27, amended: whenever the rows that survive de-duplication and
\* null-dropping number at least two and exactly one of them has the
\* strictly highest price, the percentile step removes that row; and a
\* re-application of the pipeline to its own output removes a row whenever
\* that output has at least two rows and exactly one of the highest price
C27_UniqueDearestRemoved ==
    /\ (Returned /\ batch.status = "ok" /\ UniqueDearest(batch.df))
          => DearestRemoved(batch.df, result.df)
    /\ (pc = "reapplied" /\ reapplied.status = "ok" /\ UniqueDearest(result.df))
          => DearestRemoved(result.df, reapplied.df)

\* three rows of distinct prices: the first pass returns two of them, the
\* second pass one
C27_Witness ==
    /\ pc = "reapplied" /\ reapplied.status = "ok"
    /\ batch.status = "ok" /\ UniqueDearest(batch.df) /\ Len(batch.df.rows) = 3
    /\ UniqueDearest(result.df)
    /\ Len(reapplied.df.rows) = 1

\* the table a run of the dashboard has to load: the session's fetched
\* table, else the bundled file (app.py lines 170-178, data_loader.py 24-32)
RunInput == IF HasFetched(fetched_data) THEN fetched_data ELSE disk[DefaultPath]

\* C28: the pipeline never empties a non-empty input, so the dashboard's
\* empty-table fallback fires only for an empty input: in every analysis
\* run whose input has at least one row and whose loader returned, the
\* table returned to the run has at least one row
C28_NeverEmptied ==
    (/\ pc = "app" /\ page = "analysis" /\ result.status = "ok"
     /\ RunInput # Absent /\ Len(RunInput.rows) >= 1)
    => Len(result.df.rows) >= 1

\* C29: a row of the bundled file whose rating is missing or not a number
\* comes out of the pipeline with a missing overall_rating (unless an
\* identical earlier row or its price, the highest of the file, removes it),
\* and no row with a missing overall_rating is handed to a renderer,
\* whatever min_rating is, the default 0.0 included
C29_UnratedRowsFiltered ==
    (/\ pc = "app" /\ page = "analysis" /\ df_filtered.status = "ok"
     /\ result.status = "ok" /\ ~IsEmpty(result.df)
     /\ HasCol(result.df, overall_rating))
    => /\ (~HasFetched(fetched_data) /\ disk[DefaultPath] # Absent) =>
             LET raw == disk[DefaultPath]
                 RawPrice(i) == CleanCurrencyCell(raw.rows[i].v[2]).n
             IN  \A i \in 1..Len(raw.rows) :
                     (/\ ToNumericCell(raw.rows[i].v[3]).k = "nan"
                      /\ \E k \in 1..Len(raw.rows) : RawPrice(k) > RawPrice(i)
                      /\ \A k \in 1..(i - 1) : raw.rows[k].v # raw.rows[i].v)
                     => \E j \in 1..Len(result.df.rows) :
                          /\ result.df.rows[j].i = raw.rows[i].i
                          /\ Cell(result.df, result.df.rows[j], overall_rating).k = "nan"
       /\ \A k \in 1..Len(result.df.rows) :
             Cell(result.df, result.df.rows[k], overall_rating).k = "nan"
                => \A j \in 1..Len(df_filtered.df.rows) :
                       df_filtered.df.rows[j].i # result.df.rows[k].i
       /\ \A j \in 1..Len(df_filtered.df.rows) :
             Cell(df_filtered.df, df_filtered.df.rows[j], overall_rating).k = "num"

\* default filters, and the rendered table has fewer rows than the
\* pipeline's output: the row without a rating is gone
C29_Witness ==
    /\ pc = "app" /\ page = "analysis" /\ df_filtered.status = "ok"
    /\ result.status = "ok"
    /\ filters = DefaultFilters
    /\ \E k \in 1..Len(result.df.rows) :
           Cell(result.df, result.df.rows[k], overall_rating).k = "nan"
    /\ Len(df_filtered.df.rows) > 0
    /\ Len(df_filtered.df.rows) < Len(result.df.rows)

\* C30: every table handed to a renderer has passed through the pipeline:
\* also when the load raised or returned an empty table, the table handed
\* over carries value_score, price_category and rating_category
C30_RenderedThroughPipeline ==
    (pc = "app" /\ page = "analysis" /\ df_filtered.status = "ok") =>
        /\ HasCol(df_filtered.df, value_score)
        /\ HasCol(df_filtered.df, price_category)
        /\ HasCol(df_filtered.df, rating_category)

====
